---- MODULE Spec2Model ----
(***************************************************************************)
(* The concurrency-bounded execution gateway of axos-agents:               *)
(*   execution_limiter.py  the async semaphore and its counter             *)
(*   server.py             verify_api_key, /agents, /runs, /runs/stream    *)
(*   scheduler.py          AutomationScheduler and its two JSON files      *)
(*   api.py                the /automations endpoints                      *)
(* Every request is a task of the single-threaded event loop; an action is *)
(* the code a task runs between two suspension points (await / yield).     *)
(***************************************************************************)
EXTENDS Integers, Sequences, FiniteSets, TLC

\* execution_limiter.py:14, the default of the environment variable
MAX_CONCURRENT_EXECUTIONS == 2

\* Bounds.  Spec explores NumRequests requests whose clients stay connected;
\* ConnSpec explores NumConns connections with every input, disconnects and
\* closes included.
NumRequests == 3
LoadEvents == 1
NumConns == 1
MaxEvents == 2
MaxCancels == 1

\* Bounds.  RunSpec explores the executions of NumAutomations automations,
\* MaxFires firings in all.  SchedSpec explores the lifecycle of SchedIds
\* automations with every /automations operation, SchedFires firings and
\* MaxStarts process starts; StopSpec adds MaxStops processes that stop inside
\* a save, with StopFires firings.
NumAutomations == 2
MaxFires == 3
SchedIds == 1
SchedFires == 2
MaxStarts == 2
MaxStops == 1
StopFires == 1

\* Bounds.  LimSpec explores NumThreads threads in sync_limit next to
\* LimRequests /runs requests and one get_stats call.
NumThreads == 3
LimRequests == 2

Requests == 1..NumRequests
Conns == 1..NumConns
Ids == 1..NumAutomations

None == "None"
Secret == "s3cret"

\* server.py:67-73
GRAPHS == {"crypto_analysis_agent", "chat_agent", "news_agent", "report_agent",
           "research_agent"}

\* inputs of the requests
Endpoints == {"agents", "runs", "stream"}
Credentials == {None, Secret, "wrong"}
BodyIds == {None, "chat_agent", "nonexistent_agent"}

\* what astream yields: (event_type, chunk).  A chunk is a JSON dict without
\* a "type" key ("plain"), a JSON dict with "type": "human" ("typed"), or an
\* object json.dumps cannot serialize, which is no dict ("obj").
\* In "values" mode a "type" key plays no part, so "typed" is drawn for
\* "messages" only.
EventTypes == {"values", "messages"}
Events == [type : EventTypes, chunk : {"plain", "obj"}]
          \cup {[type |-> "messages", chunk |-> "typed"]}

AgentError == "agent failed"
DumpsError == "Object is not JSON serializable"

\* an HTTP answer: status code and the JSON envelope's status and error
Resp(code, status, error) == [code |-> code, status |-> status, error |-> error]
NoResp == Resp("", "", "")

\* one string generate() yields: an "event: <kind>" line or a "data: <json>"
\* line; json is the serialized value as a tuple of its parts
EventLine(kind) == [line |-> "event", kind |-> kind, json |-> <<>>]
DataLine(kind, json) == [line |-> "data", kind |-> kind, json |-> json]

\* An AutomationConfig, as far as scheduler.py reads it: the frequency and the
\* "paused" key (config.get("paused", False): a missing key reads as False).
\* "hourly" stands for a config no branch of add_automation derives a trigger
\* for.  Absent is the value of an id that is no key of the mapping.
Frequencies == {"once", "daily", "hourly"}
Config(f, p) == [frequency |-> f, paused |-> p]
Absent == Config("none", FALSE)
Empty == [id \in Ids |-> Absent]

\* scheduler.py:90-119  the trigger add_automation derives
TriggerOf(f) ==
    CASE f = "once" -> "date"
      [] f \in {"daily", "weekly", "biweekly", "monthly"} -> "cron"
      [] OTHER -> "none"

\* a job of the BackgroundScheduler: its trigger and whether pause_job
\* suspended it (next_run_time is None)
Job(t, s) == [trigger |-> t, suspended |-> s]
NoJob == Job("none", FALSE)
NoJobs == [id \in Ids |-> NoJob]

\* a JSON file: missing, holding a complete document, or truncated by
\* open(..., 'w') with the document not (fully) written
File(doc) == [state |-> "json", doc |-> doc]
NoFile(doc) == [state |-> "none", doc |-> doc]
Partial(doc) == [state |-> "partial", doc |-> doc]

\* automation_results.json: id -> list of {timestamp, result}; the result is
\* the dict built at lines 72-76 ("ok") or {"error": str(e)} ("error")
Entry(t, r) == [timestamp |-> t, result |-> r]
NoResults == [id \in Ids |-> <<>>]

\* threads that enter sync_limit
Threads == 1..NumThreads

\* execution_limiter.py:28-33  the dict of get_stats; tmp is the left operand
\* of the sum at line 32
Stats(a, sy, tmp, total) ==
    [active_async |-> a, active_sync |-> sy, tmp |-> tmp, total_active |-> total]
NoStats == Stats(0, 0, 0, 0)

\* placeholders of the variables of CronSpec and AllocSpec before their first
\* step
NoCron == [day_of_week |-> -1, hour |-> -1, minute |-> -1]
NoWeekly == [day_of_week |-> -1, time_of_day |-> <<>>, hh |-> 0, mm |-> 0,
             trigger |-> NoCron]
Midnight == [weekday |-> 0, hour |-> 0, minute |-> 0]
NoCall == [capital |-> 0, opportunities |-> <<>>, risk_profile |-> ""]
NoReturn == [state |-> "none",
             update |-> [allocation |-> <<>>, messages |-> <<>>]]

\* a call: the operation, its id and the state it found the automation in
Call(op, id, pre) == [op |-> op, id |-> id, pre |-> pre]
NoOp == Call("none", 0, "none")

VARIABLES
    API_KEY,       \* server.py:28
    sem,           \* permits of _async_semaphore
    active_async,  \* _active_async
    pc,            \* where each request's task is
    endpoint,      \* the route of the request
    cred,          \* the bearer token of its Authorization header, or None
    agent_id,      \* the agent id read from the body, once the body is read
    resp,          \* what the HTTP layer answered
    src,           \* the events the agent's astream produced, in order
    out,           \* the strings generate() yielded to its consumer, in order
    exc,           \* the exception being handled or pending in generate()
    consumer,      \* whether the transport still iterates generate()
    acquired,      \* how often the request's task acquired a permit
    released,      \* how often it released one
    agent,         \* the agent call of the request: "none", "running",
                   \* "returned", "raised", "cancelled" (CancelledError was
                   \* raised in it) or "abandoned" (left unfinished)
    events,        \* agent events produced so far (bounded by MaxEvents)
    cancels        \* disconnects so far (bounded)

VARIABLES
    sync_sem,      \* permits of _sync_semaphore
    active_sync,   \* _active_sync
    proc,          \* the api.py process: "down", "stopped" (scheduler
                   \* constructed, not started) or "running" (started)
    automations,   \* AutomationScheduler.automations: id -> config
    afile,         \* what AUTOMATIONS_FILE holds
    rfile,         \* what RESULTS_FILE holds
    jobs,          \* the jobs of the BackgroundScheduler, by job id
    ex,            \* where the scheduler's execution of each job is
    rbuf,          \* `results` of _save_result, local to each execution
    clock,         \* datetime.now(), in ticks
    issued,        \* the uuid4 values create_automation has drawn
    invoked,       \* how often analysis_graph.invoke was called, by id
    fired,         \* how often the job of each id was found due (bounded)
    starts,        \* process starts so far (bounded)
    stops,         \* processes stopped inside a save so far (bounded)
    last           \* the last /automations call or firing: what, on which
                   \* id, and the state it found the automation in

gateway == <<API_KEY, sem, active_async, pc, endpoint, cred, agent_id, resp,
             src, out, exc, consumer, acquired, released, agent, events,
             cancels>>

sched == <<sync_sem, active_sync, proc, automations, afile, rfile, jobs, ex,
           rbuf, clock, issued, invoked, fired, starts, stops, last>>

VARIABLES
    tpc,           \* where each thread using sync_limit is
    rpc,           \* where the thread running get_stats is
    stats,         \* the dict get_stats is building
    wk,            \* add_automation for a weekly config: config and trigger
    now,           \* the scheduler's clock: weekday, hour, minute
    call,          \* the arguments of a create_allocation call
    ret            \* what the call returned or raised

lim == <<tpc, rpc, stats>>
cron == <<wk, now>>
alloc == <<call, ret>>
aux == <<lim, cron, alloc>>

vars == <<gateway, sched, aux>>

limiter == <<sem, active_async>>

Init ==
    /\ API_KEY \in {"", Secret}
    /\ sem = MAX_CONCURRENT_EXECUTIONS
    /\ active_async = 0
    /\ pc = [r \in Requests |-> "idle"]
    /\ endpoint = [r \in Requests |-> None]
    /\ cred = [r \in Requests |-> None]
    /\ agent_id = [r \in Requests |-> None]
    /\ resp = [r \in Requests |-> NoResp]
    /\ src = [r \in Requests |-> <<>>]
    /\ out = [r \in Requests |-> <<>>]
    /\ exc = [r \in Requests |-> None]
    /\ consumer = [r \in Requests |-> None]
    /\ acquired = [r \in Requests |-> 0]
    /\ released = [r \in Requests |-> 0]
    /\ agent = [r \in Requests |-> "none"]
    /\ events = 0
    /\ cancels = 0
    /\ sync_sem = MAX_CONCURRENT_EXECUTIONS
    /\ active_sync = 0
    /\ proc = "stopped"
    /\ automations = Empty
    /\ afile = NoFile(Empty)
    /\ rfile = NoFile(NoResults)
    /\ jobs = NoJobs
    /\ ex = [id \in Ids |-> "idle"]
    /\ rbuf = [id \in Ids |-> NoResults]
    /\ clock = 0
    /\ issued = {}
    /\ invoked = [id \in Ids |-> 0]
    /\ fired = [id \in Ids |-> 0]
    /\ starts = 0
    /\ stops = 0
    /\ last = NoOp
    /\ tpc = [t \in Threads |-> "idle"]
    /\ rpc = "idle"
    /\ stats = NoStats
    /\ wk = NoWeekly
    /\ now = Midnight
    /\ call = NoCall
    /\ ret = NoReturn

----------------------------------------------------------------------------
\* verify_api_key comparing the token only when one was sent
verify_api_key_SkipMissing(key, credentials) ==
    IF key = "" THEN "ok"
    ELSE IF credentials # None /\ credentials # key THEN "401"
    ELSE "ok"

\* server.py:32-47
verify_api_key(key, credentials) ==
    IF key = "" THEN "ok"
    ELSE IF credentials = None THEN "401"
    ELSE IF credentials # key THEN "401"
    ELSE "ok"

\* server.py:107  body.get("assistant_id") or body.get("agent_id")
BodyAgentId(assistant_id, agent_id_key) ==
    IF assistant_id # None THEN assistant_id ELSE agent_id_key

\* Resolves without the lookup
Resolves_Any(id) == TRUE

\* server.py:111, 165
Resolves(id) == id \in GRAPHS

\* A request arrives: the auth dependency runs, then the handler up to its
\* first suspension in the limiter.  Requests are numbered in arrival order.
Request(r, eps, creds, ids) ==
    /\ pc[r] = "idle"
    /\ IF r = 1 THEN TRUE ELSE pc[r - 1] # "idle"
    /\ \E ep \in eps, c \in creds, a1 \in ids, a2 \in ids :
         LET id == BodyAgentId(a1, a2) IN
         /\ endpoint' = [endpoint EXCEPT ![r] = ep]
         /\ cred' = [cred EXCEPT ![r] = c]
         /\ IF verify_api_key(API_KEY, c) # "ok"
            THEN /\ a1 = None /\ a2 = None
                 /\ resp' = [resp EXCEPT ![r] = Resp("401", "", "")]
                 /\ pc' = [pc EXCEPT ![r] = "done"]
                 /\ UNCHANGED <<agent_id, consumer>>
            ELSE IF ep = "agents"
            THEN /\ a1 = None /\ a2 = None
                 /\ resp' = [resp EXCEPT ![r] = Resp("200", "agents", "")]
                 /\ pc' = [pc EXCEPT ![r] = "done"]
                 /\ UNCHANGED <<agent_id, consumer>>
            ELSE IF ~Resolves(id)
            THEN /\ agent_id' = [agent_id EXCEPT ![r] = id]
                 /\ resp' = [resp EXCEPT ![r] = Resp("404", "", "")]
                 /\ pc' = [pc EXCEPT ![r] = "done"]
                 /\ UNCHANGED consumer
            ELSE /\ agent_id' = [agent_id EXCEPT ![r] = id]
                 /\ pc' = [pc EXCEPT ![r] = "aenter"]
                 /\ IF ep = "stream"
                    THEN /\ resp' = [resp EXCEPT ![r] = Resp("200", "stream", "")]
                         /\ consumer' = [consumer EXCEPT ![r] = "attached"]
                    ELSE UNCHANGED <<resp, consumer>>
    /\ UNCHANGED <<API_KEY, limiter, src, out, exc, acquired, released,
                   agent, events, cancels>>
    /\ UNCHANGED sched
    /\ UNCHANGED aux

----------------------------------------------------------------------------
\* AEnter without the wait for a permit
AEnter_NoWait(r) ==
    /\ pc[r] = "aenter"
    /\ sem' = sem - 1
    /\ active_async' = active_async + 1
    /\ acquired' = [acquired EXCEPT ![r] = @ + 1]
    /\ agent' = [agent EXCEPT ![r] = "running"]
    /\ pc' = [pc EXCEPT ![r] = IF endpoint[r] = "runs" THEN "ainvoke" ELSE "astream"]
    /\ UNCHANGED <<API_KEY, endpoint, cred, agent_id, resp, src, out, exc,
                   consumer, released, events, cancels>>
    /\ UNCHANGED sched
    /\ UNCHANGED aux

\* execution_limiter.py:92-98  ExecutionLimiter.__aenter__: the task is
\* suspended in _async_semaphore.acquire() until a permit is free, then takes
\* it and counts itself, with no suspension in between.  The body of the
\* `async with` starts the agent call at once.
AEnter(r) ==
    /\ pc[r] = "aenter"
    /\ sem > 0
    /\ sem' = sem - 1
    /\ active_async' = active_async + 1
    /\ acquired' = [acquired EXCEPT ![r] = @ + 1]
    /\ agent' = [agent EXCEPT ![r] = "running"]
    /\ pc' = [pc EXCEPT ![r] = IF endpoint[r] = "runs" THEN "ainvoke" ELSE "astream"]
    /\ UNCHANGED <<API_KEY, endpoint, cred, agent_id, resp, src, out, exc,
                   consumer, released, events, cancels>>
    /\ UNCHANGED sched
    /\ UNCHANGED aux

\* aexit uncounting the task and keeping its permit
aexit_KeepPermit(r, exc_type) ==
    /\ sem' = sem
    /\ active_async' = active_async - 1
    /\ released' = [released EXCEPT ![r] = @ + 1]

\* execution_limiter.py:100-106  ExecutionLimiter.__aexit__: releases the
\* permit and uncounts the task whatever exc_type is; it never suspends.
aexit(r, exc_type) ==
    /\ sem' = sem + 1
    /\ active_async' = active_async - 1
    /\ released' = [released EXCEPT ![r] = @ + 1]

\* server.py:120-123  graph.ainvoke returns
RunReturn(r) ==
    /\ pc[r] = "ainvoke"
    /\ agent' = [agent EXCEPT ![r] = "returned"]
    /\ resp' = [resp EXCEPT ![r] = Resp("200", "success", "")]
    /\ aexit(r, None)
    /\ pc' = [pc EXCEPT ![r] = "done"]
    /\ UNCHANGED <<API_KEY, endpoint, cred, agent_id, src, out, exc, consumer,
                   acquired, events, cancels>>
    /\ UNCHANGED sched
    /\ UNCHANGED aux

\* RunRaise with the permit released after the call only, not on the way out
\* of a failed one
RunRaise_Leak(r) ==
    /\ pc[r] = "ainvoke"
    /\ agent' = [agent EXCEPT ![r] = "raised"]
    /\ resp' = [resp EXCEPT ![r] = Resp("200", "error", AgentError)]
    /\ pc' = [pc EXCEPT ![r] = "done"]
    /\ UNCHANGED <<API_KEY, limiter, released, endpoint, cred, agent_id, src,
                   out, exc, consumer, acquired, events, cancels>>
    /\ UNCHANGED sched
    /\ UNCHANGED aux

\* RunRaise with no except clause: the exception leaves the handler
RunRaise_Reraise(r) ==
    /\ pc[r] = "ainvoke"
    /\ agent' = [agent EXCEPT ![r] = "raised"]
    /\ resp' = [resp EXCEPT ![r] = Resp("500", "", "")]
    /\ aexit(r, AgentError)
    /\ pc' = [pc EXCEPT ![r] = "done"]
    /\ UNCHANGED <<API_KEY, endpoint, cred, agent_id, src, out, exc, consumer,
                   acquired, events, cancels>>
    /\ UNCHANGED sched
    /\ UNCHANGED aux

\* server.py:120-125  graph.ainvoke raises an Exception
RunRaise(r) ==
    /\ pc[r] = "ainvoke"
    /\ agent' = [agent EXCEPT ![r] = "raised"]
    /\ resp' = [resp EXCEPT ![r] = Resp("200", "error", AgentError)]
    /\ aexit(r, None)
    /\ pc' = [pc EXCEPT ![r] = "done"]
    /\ UNCHANGED <<API_KEY, endpoint, cred, agent_id, src, out, exc, consumer,
                   acquired, events, cancels>>
    /\ UNCHANGED sched
    /\ UNCHANGED aux

----------------------------------------------------------------------------
\* generate(), server.py:173-199.  Its suspension points:
\*   "aenter"      in ExecutionLimiter.__aenter__
\*   "astream"     awaiting the agent's next event (line 177)
\*   "y_event"     after yield "event: <type>"   (lines 189, 192)
\*   "y_data"      after yield "data: <json>"    (lines 190, 193)
\*   "y_err_event" after yield "event: error"    (line 195)
\*   "y_err_data"  after yield "data: {message}" (line 196)
\*   "y_end_event" after yield "event: end"      (line 198)
\*   "y_end_data"  after yield "data: {}"        (line 199)
BodyYields == {"y_event", "y_data", "y_err_event", "y_err_data"}
FinallyYields == {"y_end_event", "y_end_data"}
Yields == BodyYields \cup FinallyYields

Last(s) == s[Len(s)]

\* server.py:187  chunk.get("type", "ai") if isinstance(chunk, dict) else "ai"
MsgType(chunk) == IF chunk = "typed" THEN "human" ELSE "ai"

\* server.py:184-193  the value handed to json.dumps
Formatted(ev) ==
    IF ev.type = "messages" THEN <<MsgType(ev.chunk), ev.chunk>> ELSE <<ev.chunk>>

\* json.dumps raises TypeError on a value holding a non-JSON object
Serializable(json) == \A i \in 1..Len(json) : json[i] # "obj"

Emit(r, l) == out' = [out EXCEPT ![r] = Append(@, l)]

\* EnterFinally with no finally block: the generator ends without an end line
EnterFinally_Missing(r) ==
    /\ aexit(r, None)
    /\ pc' = [pc EXCEPT ![r] = "done"]
    /\ UNCHANGED out

\* EnterFinally with the `async with` closed around the try statement only:
\* the permit goes back before the end frame is yielded
EnterFinally_ReleaseEarly(r) ==
    /\ Emit(r, EventLine("end"))
    /\ pc' = [pc EXCEPT ![r] = "y_end_event"]
    /\ aexit(r, None)

\* server.py:197-198  the finally block starts and yields the end line; the
\* generator is still inside the `async with`
EnterFinally(r) ==
    /\ Emit(r, EventLine("end"))
    /\ pc' = [pc EXCEPT ![r] = "y_end_event"]
    /\ UNCHANGED <<limiter, released>>

\* StreamEvent with a loop body that frames no "messages" event
StreamEvent_DropMessages(r, evs, max) ==
    /\ pc[r] = "astream"
    /\ events < max
    /\ \E ev \in evs :
         /\ src' = [src EXCEPT ![r] = Append(@, ev)]
         /\ IF ev.type = "messages"
            THEN UNCHANGED <<out, pc>>
            ELSE /\ Emit(r, EventLine(ev.type))
                 /\ pc' = [pc EXCEPT ![r] = "y_event"]
    /\ events' = events + 1
    /\ UNCHANGED <<API_KEY, limiter, endpoint, cred, agent_id, resp, exc,
                   consumer, acquired, released, agent, cancels>>
    /\ UNCHANGED sched
    /\ UNCHANGED aux

\* server.py:177, 189, 192  the agent produces an event; the loop body runs
\* to the yield of the event line
StreamEvent(r, evs, max) ==
    /\ pc[r] = "astream"
    /\ events < max
    /\ \E ev \in evs :
         /\ src' = [src EXCEPT ![r] = Append(@, ev)]
         /\ Emit(r, EventLine(ev.type))
    /\ events' = events + 1
    /\ pc' = [pc EXCEPT ![r] = "y_event"]
    /\ UNCHANGED <<API_KEY, limiter, endpoint, cred, agent_id, resp, exc,
                   consumer, acquired, released, agent, cancels>>
    /\ UNCHANGED sched
    /\ UNCHANGED aux

\* server.py:177, 197-198  the agent's stream is exhausted: the finally
\* block yields the end line
StreamEnd(r) ==
    /\ pc[r] = "astream"
    /\ agent' = [agent EXCEPT ![r] = "returned"]
    /\ EnterFinally(r)
    /\ UNCHANGED <<API_KEY, endpoint, cred, agent_id, resp, src, exc,
                   consumer, acquired, events, cancels>>
    /\ UNCHANGED sched
    /\ UNCHANGED aux

\* StreamRaise with no except clause: the exception stays pending through the
\* finally block and leaves the generator
StreamRaise_Propagate(r) ==
    /\ pc[r] = "astream"
    /\ agent' = [agent EXCEPT ![r] = "raised"]
    /\ exc' = [exc EXCEPT ![r] = AgentError]
    /\ EnterFinally(r)
    /\ UNCHANGED <<API_KEY, endpoint, cred, agent_id, resp, src, consumer,
                   acquired, events, cancels>>
    /\ UNCHANGED sched
    /\ UNCHANGED aux

\* server.py:177, 194-195  the agent raises an Exception
StreamRaise(r) ==
    /\ pc[r] = "astream"
    /\ agent' = [agent EXCEPT ![r] = "raised"]
    /\ exc' = [exc EXCEPT ![r] = AgentError]
    /\ Emit(r, EventLine("error"))
    /\ pc' = [pc EXCEPT ![r] = "y_err_event"]
    /\ UNCHANGED <<API_KEY, limiter, endpoint, cred, agent_id, resp, src,
                   consumer, acquired, released, events, cancels>>
    /\ UNCHANGED sched
    /\ UNCHANGED aux

\* The consumer asks for the next string (__anext__): generate() runs from
\* the yield it is suspended at to its next suspension point or to its end.
Resume(r) ==
    /\ consumer[r] = "attached"
    /\ pc[r] \in Yields
    /\ CASE pc[r] = "y_event" ->
              \* lines 190, 193: json.dumps, then the data line; a TypeError
              \* is caught at line 194
              IF Serializable(Formatted(Last(src[r])))
              THEN /\ Emit(r, DataLine(Last(src[r]).type, Formatted(Last(src[r]))))
                   /\ pc' = [pc EXCEPT ![r] = "y_data"]
                   /\ UNCHANGED <<exc, agent, limiter, released>>
              ELSE /\ exc' = [exc EXCEPT ![r] = DumpsError]
                   /\ agent' = [agent EXCEPT ![r] = "abandoned"]
                   /\ Emit(r, EventLine("error"))
                   /\ pc' = [pc EXCEPT ![r] = "y_err_event"]
                   /\ UNCHANGED <<limiter, released>>
         [] pc[r] = "y_data" ->
              /\ pc' = [pc EXCEPT ![r] = "astream"]
              /\ UNCHANGED <<out, exc, agent, limiter, released>>
         [] pc[r] = "y_err_event" ->
              \* line 196
              /\ Emit(r, DataLine("error", <<"message", exc[r]>>))
              /\ pc' = [pc EXCEPT ![r] = "y_err_data"]
              /\ UNCHANGED <<exc, agent, limiter, released>>
         [] pc[r] = "y_err_data" ->
              \* the handler ends, the finally block starts: line 198
              /\ exc' = [exc EXCEPT ![r] = None]
              /\ EnterFinally(r)
              /\ UNCHANGED agent
         [] pc[r] = "y_end_event" ->
              \* line 199
              /\ Emit(r, DataLine("end", <<>>))
              /\ pc' = [pc EXCEPT ![r] = "y_end_data"]
              /\ UNCHANGED <<exc, agent, limiter, released>>
         [] pc[r] = "y_end_data" ->
              \* the finally block ends, a pending exception goes on through
              \* __aexit__ and out of the generator
              /\ aexit(r, exc[r])
              /\ pc' = [pc EXCEPT ![r] = "done"]
              /\ UNCHANGED <<out, exc, agent>>
    /\ UNCHANGED <<API_KEY, endpoint, cred, agent_id, resp, src, consumer,
                   acquired, events, cancels>>
    /\ UNCHANGED sched
    /\ UNCHANGED aux

\* The client disconnects and the consumer's task is cancelled.  Suspended in
\* an await of generate(), the task gets CancelledError there: in __aenter__
\* nothing was acquired and the generator ends; in astream the exception is
\* no Exception, so line 194 lets it pass and the finally block yields the
\* end line, which hands control back to the consumer (this cancellation is
\* swallowed; whether the consumer is cancelled again at its next await is the
\* transport's business).  Suspended at a yield, generate() sees nothing.
Cancel(r, max) ==
    /\ consumer[r] = "attached"
    /\ pc[r] \in {"aenter", "astream"} \cup Yields
    /\ cancels < max
    /\ cancels' = cancels + 1
    /\ CASE pc[r] = "aenter" ->
              /\ exc' = [exc EXCEPT ![r] = "CancelledError"]
              /\ pc' = [pc EXCEPT ![r] = "done"]
              /\ consumer' = [consumer EXCEPT ![r] = "gone"]
              /\ UNCHANGED <<out, agent, limiter, released>>
         [] pc[r] = "astream" ->
              /\ exc' = [exc EXCEPT ![r] = "CancelledError"]
              /\ agent' = [agent EXCEPT ![r] = "cancelled"]
              /\ EnterFinally(r)
              /\ \E c \in {"attached", "gone"} :
                   consumer' = [consumer EXCEPT ![r] = c]
         [] pc[r] \in Yields ->
              /\ consumer' = [consumer EXCEPT ![r] = "gone"]
              /\ UNCHANGED <<out, exc, pc, agent, limiter, released>>
    /\ UNCHANGED <<API_KEY, endpoint, cred, agent_id, resp, src, acquired,
                   events>>
    /\ UNCHANGED sched
    /\ UNCHANGED aux

\* The abandoned generator is closed with aclose() (by the transport or by
\* the event loop's finalizer hook): GeneratorExit is thrown in at the yield.
\* In the loop body or the handler it reaches the finally block, whose yield
\* at line 198 makes the generator ignore the close: the yielded string is
\* dropped, aclose() fails with RuntimeError and the generator stays suspended
\* inside the `async with`.  At a yield of the finally block it leaves through
\* __aexit__.
AClose(r) ==
    /\ consumer[r] = "gone"
    /\ pc[r] \in Yields
    /\ exc[r] # "GeneratorExit"
    /\ exc' = [exc EXCEPT ![r] = "GeneratorExit"]
    /\ agent' = [agent EXCEPT ![r] = IF @ = "running" THEN "abandoned" ELSE @]
    /\ IF pc[r] \in BodyYields
       THEN /\ pc' = [pc EXCEPT ![r] = "y_end_event"]
            /\ UNCHANGED <<limiter, released>>
       ELSE /\ aexit(r, "GeneratorExit")
            /\ pc' = [pc EXCEPT ![r] = "done"]
    /\ UNCHANGED <<API_KEY, endpoint, cred, agent_id, resp, src, out, consumer,
                   acquired, events, cancels>>
    /\ UNCHANGED sched
    /\ UNCHANGED aux

\* A generator that ignored its close is left suspended at line 198; a further
\* aclose() does nothing.  When the collector frees it, GeneratorExit is
\* thrown in once more and it leaves through __aexit__, which never suspends.
Collect(r) ==
    /\ consumer[r] = "gone"
    /\ pc[r] \in FinallyYields
    /\ exc[r] = "GeneratorExit"
    /\ aexit(r, "GeneratorExit")
    /\ pc' = [pc EXCEPT ![r] = "done"]
    /\ UNCHANGED <<API_KEY, endpoint, cred, agent_id, resp, src, out, exc,
                   consumer, acquired, agent, events, cancels>>
    /\ UNCHANGED sched
    /\ UNCHANGED aux

----------------------------------------------------------------------------
\* The gateway under load: valid requests to /runs and /runs/stream whose
\* clients read their streams to the end.
LoadEventSet == {[type |-> "values", chunk |-> "plain"]}

Next ==
    \E r \in Requests :
        \/ Request(r, {"runs", "stream"}, {Secret}, {None, "chat_agent"})
        \/ AEnter(r)
        \/ RunReturn(r)
        \/ RunRaise(r)
        \/ StreamEvent(r, LoadEventSet, LoadEvents)
        \/ StreamEnd(r)
        \/ StreamRaise(r)
        \/ Resume(r)

Spec == Init /\ [][Next]_vars

\* The load of requests on known agents, with the scheduling of the event
\* loop: a task that can run is run (a waiter of the semaphore is woken when
\* a permit is free, a suspended generator is resumed by its consumer), and
\* an agent call that was started comes to an end, by returning or by
\* raising.
FairRequests == 3
FairEvents == 1

\* the steps of the request r: each request is one task (and, for a stream,
\* the consumer of its generator)
Task(r) ==
    \/ AEnter(r)
    \/ RunReturn(r)
    \/ RunRaise(r)
    \/ StreamEvent(r, LoadEventSet, FairEvents)
    \/ StreamEnd(r)
    \/ StreamRaise(r)
    \/ Resume(r)

FairNext ==
    \E r \in 1..FairRequests :
        \/ Request(r, {"runs", "stream"}, {Secret}, {"chat_agent"})
        \/ Task(r)

Fairness == \A r \in 1..FairRequests : WF_vars(Task(r))

\* the server is configured with a key
FairInit == Init /\ API_KEY = Secret

FairSpec == FairInit /\ [][FairNext]_vars /\ Fairness

\* Single connections with every input: any route, credentials and agent id,
\* any event the agent can produce, clients that disconnect, generators that
\* are closed.
ConnNext ==
    \E r \in Conns :
        \/ Request(r, Endpoints, Credentials, BodyIds)
        \/ AEnter(r)
        \/ RunReturn(r)
        \/ RunRaise(r)
        \/ StreamEvent(r, Events, MaxEvents)
        \/ StreamEnd(r)
        \/ StreamRaise(r)
        \/ Resume(r)
        \/ Cancel(r, MaxCancels)
        \/ AClose(r)
        \/ Collect(r)

ConnSpec == Init /\ [][ConnNext]_vars

----------------------------------------------------------------------------
(***************************************************************************)
(* scheduler.py and api.py.  The endpoints of api.py are handled one at a  *)
(* time; the BackgroundScheduler runs _execute_automation on its worker    *)
(* threads, where executions of different jobs overlap with each other and *)
(* with the endpoints (one instance per job: max_instances is 1).          *)
(***************************************************************************)

\* the state of an automation in the terms of the lifecycle: its definition
\* and its job
StateOf(id) ==
    IF automations[id] = Absent THEN "Unregistered"
    ELSE IF jobs[id] = NoJob
         THEN IF automations[id].paused THEN "PausedNoTrigger" ELSE "NoTrigger"
    ELSE IF automations[id].paused = jobs[id].suspended
         THEN IF automations[id].paused THEN "Paused" ELSE "Active"
    ELSE "Mixed"

RECURSIVE Sum(_, _)
Sum(f, S) == IF S = {} THEN 0
             ELSE LET x == CHOOSE y \in S : TRUE IN f[x] + Sum(f, S \ {x})

\* trigger firings so far
Fires == Sum(fired, Ids)

\* scheduler.py:23-28
load_automations(f) == IF f.state = "none" THEN Empty ELSE f.doc

\* scheduler.py:30-33
save_automations == afile' = File(automations')

\* the process is gone, and with it the mapping, the jobs (the job store is
\* in memory) and the worker threads
Down ==
    /\ proc' = "down"
    /\ automations' = Empty
    /\ jobs' = NoJobs
    /\ ex' = [id \in Ids |-> "idle"]
    /\ rbuf' = [id \in Ids |-> NoResults]

\* scheduler.py:84-130.  Without a branch for the frequency, `trigger` is
\* unbound at line 124 and the call ends in UnboundLocalError, after the
\* config was stored and saved.
add_automation(id, config) ==
    /\ automations' = [automations EXCEPT ![id] = config]
    /\ save_automations
    /\ jobs' = IF TriggerOf(config.frequency) # "none"
               THEN [jobs EXCEPT ![id] = Job(TriggerOf(config.frequency), FALSE)]
               ELSE jobs

\* remove_automation leaving the job in the scheduler
remove_automation_KeepJob(id) ==
    IF automations[id] # Absent
    THEN /\ automations' = [automations EXCEPT ![id] = Absent]
         /\ save_automations
         /\ UNCHANGED jobs
    ELSE UNCHANGED <<automations, afile, jobs>>

\* scheduler.py:132-143
remove_automation(id) ==
    IF automations[id] # Absent
    THEN /\ automations' = [automations EXCEPT ![id] = Absent]
         /\ save_automations
         /\ jobs' = [jobs EXCEPT ![id] = NoJob]
    ELSE UNCHANGED <<automations, afile, jobs>>

\* pause_automation as a toggle
pause_automation_Toggle(id) ==
    IF jobs[id] = NoJob
    THEN UNCHANGED <<automations, afile, jobs>>
    ELSE /\ jobs' = [jobs EXCEPT ![id].suspended = ~@]
         /\ IF automations[id] # Absent
            THEN /\ automations' = [automations EXCEPT ![id].paused = ~@]
                 /\ save_automations
            ELSE UNCHANGED <<automations, afile>>

\* scheduler.py:145-154.  pause_job comes first: without a job of that id it
\* raises JobLookupError, which line 153 catches.
pause_automation(id) ==
    IF jobs[id] = NoJob
    THEN UNCHANGED <<automations, afile, jobs>>
    ELSE /\ jobs' = [jobs EXCEPT ![id].suspended = TRUE]
         /\ IF automations[id] # Absent
            THEN /\ automations' = [automations EXCEPT ![id].paused = TRUE]
                 /\ save_automations
            ELSE UNCHANGED <<automations, afile>>

\* scheduler.py:156-165.  resume_job raises JobLookupError the same way; a
\* job it finds gets its next run time from its trigger.
resume_automation(id) ==
    IF jobs[id] = NoJob
    THEN UNCHANGED <<automations, afile, jobs>>
    ELSE /\ jobs' = [jobs EXCEPT ![id].suspended = FALSE]
         /\ IF automations[id] # Absent
            THEN /\ automations' = [automations EXCEPT ![id].paused = FALSE]
                 /\ save_automations
            ELSE UNCHANGED <<automations, afile>>

\* api.py:31-39  POST /automations; uuid4 gives an id never drawn before
\* (ids are numbered in the order they are drawn)
create_automation(id, f) ==
    /\ proc = "running"
    /\ id = Cardinality(issued) + 1
    /\ issued' = issued \cup {id}
    /\ add_automation(id, Config(f, FALSE))
    /\ UNCHANGED <<sync_sem, active_sync, proc, rfile, ex, rbuf, clock,
                   invoked, fired, starts, stops>>
    /\ UNCHANGED gateway
    /\ UNCHANGED aux
    /\ last' = Call("add", id, StateOf(id))

\* api.py:41-44  DELETE /automations/{id}
delete_automation(id) ==
    /\ proc = "running"
    /\ remove_automation(id)
    /\ UNCHANGED <<sync_sem, active_sync, proc, rfile, ex, rbuf, clock,
                   issued, invoked, fired, starts, stops>>
    /\ UNCHANGED gateway
    /\ UNCHANGED aux
    /\ last' = Call("remove", id, StateOf(id))

\* api.py:46-49  POST /automations/{id}/pause
api_pause_automation(id) ==
    /\ proc = "running"
    /\ pause_automation(id)
    /\ UNCHANGED <<sync_sem, active_sync, proc, rfile, ex, rbuf, clock,
                   issued, invoked, fired, starts, stops>>
    /\ UNCHANGED gateway
    /\ UNCHANGED aux
    /\ last' = Call("pause", id, StateOf(id))

\* api.py:51-54  POST /automations/{id}/resume
api_resume_automation(id) ==
    /\ proc = "running"
    /\ resume_automation(id)
    /\ UNCHANGED <<sync_sem, active_sync, proc, rfile, ex, rbuf, clock,
                   issued, invoked, fired, starts, stops>>
    /\ UNCHANGED gateway
    /\ UNCHANGED aux
    /\ last' = Call("resume", id, StateOf(id))

\* api.py:39, 44, 49, 54  what the endpoint answers to a call: the return
\* statement is reached whatever the scheduler did, and gives a 200
Answer(c) ==
    CASE c.op = "add" -> Resp("200", "created", "")
      [] c.op = "remove" -> Resp("200", "deleted", "")
      [] c.op = "pause" -> Resp("200", "paused", "")
      [] c.op = "resume" -> Resp("200", "resumed", "")
      [] OTHER -> NoResp

\* scheduler.py:167-175, called by the startup event (api.py:82-84).  Every
\* stored config that is not paused goes through add_automation again, which
\* for a 'once' config makes a new DateTrigger one minute from now.  If
\* add_automation raises, the startup event fails and the process exits.
start ==
    /\ proc = "stopped"
    /\ starts < MaxStarts
    /\ starts' = starts + 1
    /\ LET todo == {id \in Ids : automations[id] # Absent
                                 /\ ~automations[id].paused}
       IN  IF \E id \in todo : TriggerOf(automations[id].frequency) = "none"
           THEN /\ afile' = File(automations)
                /\ Down
           ELSE /\ jobs' = [id \in Ids |->
                              IF id \in todo
                              THEN Job(TriggerOf(automations[id].frequency), FALSE)
                              ELSE jobs[id]]
                /\ afile' = IF todo = {} THEN afile ELSE File(automations)
                /\ proc' = "running"
                /\ UNCHANGED <<automations, ex, rbuf>>
    /\ UNCHANGED <<sync_sem, active_sync, rfile, clock, issued, invoked,
                   fired, stops>>
    /\ UNCHANGED gateway
    /\ UNCHANGED aux
    /\ UNCHANGED last

\* scheduler.py:177-180, called by the shutdown event (api.py:86-88):
\* scheduler.shutdown() waits for the executions in progress, then the
\* process ends
shutdown ==
    /\ proc = "running"
    /\ \A id \in Ids : ex[id] = "idle"
    /\ Down
    /\ UNCHANGED <<sync_sem, active_sync, afile, rfile, clock, issued,
                   invoked, fired, starts, stops>>
    /\ UNCHANGED gateway
    /\ UNCHANGED aux
    /\ last' = NoOp

\* scheduler.py:183 and 19-21: a new process imports scheduler.py, which
\* constructs the AutomationScheduler and loads the mapping; json.load raises
\* on a truncated file and the import fails
Construct ==
    /\ proc = "down"
    /\ starts < MaxStarts
    /\ afile.state # "partial"
    /\ proc' = "stopped"
    /\ automations' = load_automations(afile)
    /\ UNCHANGED <<sync_sem, active_sync, afile, rfile, jobs, ex, rbuf,
                   clock, issued, invoked, fired, starts, stops>>
    /\ UNCHANGED gateway
    /\ UNCHANGED aux
    /\ UNCHANGED last

\* The scheduler's thread finds the job due and submits _execute_automation
\* to the thread pool; a job whose trigger has no further fire time (a
\* DateTrigger that fired) is removed from the job store.  A job with an
\* instance still running is skipped.
Dispatch(id, max) ==
    /\ proc = "running"
    /\ jobs[id] # NoJob
    /\ ~jobs[id].suspended
    /\ ex[id] = "idle"
    /\ Fires < max
    /\ fired' = [fired EXCEPT ![id] = @ + 1]
    /\ ex' = [ex EXCEPT ![id] = "submitted"]
    /\ jobs' = IF jobs[id].trigger = "date"
               THEN [jobs EXCEPT ![id] = NoJob]
               ELSE jobs
    /\ UNCHANGED <<sync_sem, active_sync, proc, automations, afile, rfile,
                   rbuf, clock, issued, invoked, starts, stops>>
    /\ UNCHANGED gateway
    /\ UNCHANGED aux
    /\ UNCHANGED last

\* scheduler.py:55-61  the worker thread looks the definition up and calls
\* analysis_graph.invoke, directly: sync_limit is not entered
Begin(id) ==
    /\ ex[id] = "submitted"
    /\ IF automations[id] = Absent
       THEN /\ ex' = [ex EXCEPT ![id] = "idle"]
            /\ UNCHANGED invoked
       ELSE /\ ex' = [ex EXCEPT ![id] = "invoke"]
            /\ invoked' = [invoked EXCEPT ![id] = @ + 1]
    /\ UNCHANGED <<sync_sem, active_sync, proc, automations, afile, rfile,
                   jobs, rbuf, clock, issued, fired, starts, stops>>
    /\ UNCHANGED gateway
    /\ UNCHANGED aux
    /\ last' = Call("fire", id, StateOf(id))

\* save_result starting a new list for the id
save_result_Overwrite(id, result) ==
    IF rfile.state = "partial"
    THEN /\ ex' = [ex EXCEPT ![id] = "idle"]
         /\ UNCHANGED <<rbuf, clock>>
    ELSE /\ clock' = clock + 1
         /\ rbuf' = [rbuf EXCEPT ![id] =
                       [rfile.doc EXCEPT ![id] = <<Entry(clock', result)>>]]
         /\ ex' = [ex EXCEPT ![id] = "write"]

\* scheduler.py:37-48  _save_result reads the whole file and appends its
\* entry to the list of the id; the rewrite is the next step.  On a truncated
\* file json.load raises: in the try block the handler at line 80 calls
\* _save_result again, and from there the exception leaves
\* _execute_automation.
save_result(id, result) ==
    IF rfile.state = "partial"
    THEN /\ ex' = [ex EXCEPT ![id] = "idle"]
         /\ UNCHANGED <<rbuf, clock>>
    ELSE /\ clock' = clock + 1
         /\ rbuf' = [rbuf EXCEPT ![id] =
                       [rfile.doc EXCEPT ![id] = Append(@, Entry(clock', result))]]
         /\ ex' = [ex EXCEPT ![id] = "write"]

\* scheduler.py:61-76  invoke returns, _save_result is called with the result
InvokeReturn(id) ==
    /\ ex[id] = "invoke"
    /\ save_result(id, "ok")
    /\ UNCHANGED <<sync_sem, active_sync, proc, automations, afile, rfile,
                   jobs, issued, invoked, fired, starts, stops>>
    /\ UNCHANGED gateway
    /\ UNCHANGED aux
    /\ UNCHANGED last

\* InvokeRaise removing the job of the failed automation
InvokeRaise_Unschedule(id) ==
    /\ ex[id] = "invoke"
    /\ save_result(id, "error")
    /\ jobs' = [jobs EXCEPT ![id] = NoJob]
    /\ UNCHANGED <<sync_sem, active_sync, proc, automations, afile, rfile,
                   issued, invoked, fired, starts, stops>>
    /\ UNCHANGED gateway
    /\ UNCHANGED aux
    /\ UNCHANGED last

\* scheduler.py:80-82  invoke raises, _save_result is called with the error
InvokeRaise(id) ==
    /\ ex[id] = "invoke"
    /\ save_result(id, "error")
    /\ UNCHANGED <<sync_sem, active_sync, proc, automations, afile, rfile,
                   jobs, issued, invoked, fired, starts, stops>>
    /\ UNCHANGED gateway
    /\ UNCHANGED aux
    /\ UNCHANGED last

\* scheduler.py:50-51  _save_result rewrites the whole file
SaveWrite(id) ==
    /\ ex[id] = "write"
    /\ rfile' = File(rbuf[id])
    /\ rbuf' = [rbuf EXCEPT ![id] = NoResults]
    /\ ex' = [ex EXCEPT ![id] = "idle"]
    /\ UNCHANGED <<sync_sem, active_sync, proc, automations, afile, jobs,
                   clock, issued, invoked, fired, starts, stops>>
    /\ UNCHANGED gateway
    /\ UNCHANGED aux
    /\ UNCHANGED last

\* The process stops inside _save_automations, between open(..., 'w'), which
\* truncates the file, and the end of json.dump (here: in the save of
\* add_automation, whose new mapping is lost with the process).
StopInSaveAutomations(id) ==
    /\ proc = "running"
    /\ id = Cardinality(issued) + 1
    /\ stops < MaxStops
    /\ stops' = stops + 1
    /\ issued' = issued \cup {id}
    /\ afile' = Partial(Empty)
    /\ Down
    /\ UNCHANGED <<sync_sem, active_sync, rfile, clock, invoked, fired,
                   starts>>
    /\ UNCHANGED gateway
    /\ UNCHANGED aux
    /\ last' = NoOp

\* The process stops inside the rewrite of _save_result
StopInSaveResult(id) ==
    /\ ex[id] = "write"
    /\ stops < MaxStops
    /\ stops' = stops + 1
    /\ rfile' = Partial(NoResults)
    /\ Down
    /\ UNCHANGED <<sync_sem, active_sync, afile, clock, issued, invoked,
                   fired, starts>>
    /\ UNCHANGED gateway
    /\ UNCHANGED aux
    /\ last' = NoOp

\* api.py and scheduler.py read no API_KEY
SchedInit == Init /\ API_KEY = ""

SchedNext ==
    \/ start
    \/ shutdown
    \/ Construct
    \/ \E id \in 1..SchedIds :
        \/ \E f \in Frequencies : create_automation(id, f)
        \/ delete_automation(id)
        \/ api_pause_automation(id)
        \/ api_resume_automation(id)
        \/ Dispatch(id, SchedFires)
        \/ Begin(id)
        \/ InvokeReturn(id)
        \/ InvokeRaise(id)
        \/ SaveWrite(id)

SchedSpec == SchedInit /\ [][SchedNext]_vars

\* one process, automations that get a trigger, and their executions
RunNext ==
    \/ start
    \/ \E id \in Ids :
        \/ \E f \in {"once", "daily"} : create_automation(id, f)
        \/ Dispatch(id, MaxFires)
        \/ Begin(id)
        \/ InvokeReturn(id)
        \/ InvokeRaise(id)
        \/ SaveWrite(id)

RunSpec == SchedInit /\ [][RunNext]_vars

\* SchedSpec with processes that stop inside a save
StopNext ==
    \/ start
    \/ shutdown
    \/ Construct
    \/ \E id \in 1..SchedIds :
        \/ \E f \in Frequencies : create_automation(id, f)
        \/ delete_automation(id)
        \/ api_pause_automation(id)
        \/ api_resume_automation(id)
        \/ Dispatch(id, StopFires)
        \/ Begin(id)
        \/ InvokeReturn(id)
        \/ InvokeRaise(id)
        \/ SaveWrite(id)
        \/ StopInSaveAutomations(id)
        \/ StopInSaveResult(id)

StopSpec == SchedInit /\ [][StopNext]_vars

----------------------------------------------------------------------------
(***************************************************************************)
(* execution_limiter.py with threads: sync_limit is entered by worker      *)
(* threads, get_stats is called by the thread that serves GET /health      *)
(* (a sync endpoint, run in the server's thread pool), and the tasks of    *)
(* the event loop enter ExecutionLimiter.  A thread's step is what it does *)
(* between two points where another thread can run; the bodies of          *)
(* `with _lock` are one step each.                                         *)
(***************************************************************************)

\* SyncAcquire taking its permit from the async semaphore
SyncAcquire_Shared(t) ==
    /\ tpc[t] = "idle"
    /\ IF t = 1 THEN TRUE ELSE tpc[t - 1] # "idle"
    /\ sem > 0
    /\ sem' = sem - 1
    /\ tpc' = [tpc EXCEPT ![t] = "inc"]
    /\ UNCHANGED <<API_KEY, active_async, pc, endpoint, cred, agent_id, resp,
                   src, out, exc, consumer, acquired, released, agent, events,
                   cancels>>
    /\ UNCHANGED <<sched, rpc, stats, cron, alloc>>

\* execution_limiter.py:50  _sync_semaphore.acquire(); the threads are
\* numbered in the order they call it
SyncAcquire(t) ==
    /\ tpc[t] = "idle"
    /\ IF t = 1 THEN TRUE ELSE tpc[t - 1] # "idle"
    /\ sync_sem > 0
    /\ sync_sem' = sync_sem - 1
    /\ tpc' = [tpc EXCEPT ![t] = "inc"]
    /\ UNCHANGED <<active_sync, proc, automations, afile, rfile, jobs, ex,
                   rbuf, clock, issued, invoked, fired, starts, stops, last>>
    /\ UNCHANGED <<gateway, rpc, stats, cron, alloc>>

\* execution_limiter.py:51-55  with _lock: _active_sync += 1, then the body
SyncInc(t) ==
    /\ tpc[t] = "inc"
    /\ active_sync' = active_sync + 1
    /\ tpc' = [tpc EXCEPT ![t] = "body"]
    /\ UNCHANGED <<sync_sem, proc, automations, afile, rfile, jobs, ex, rbuf,
                   clock, issued, invoked, fired, starts, stops, last>>
    /\ UNCHANGED <<gateway, rpc, stats, cron, alloc>>

\* execution_limiter.py:56-57  the body ends (returns or raises):
\* _sync_semaphore.release()
SyncRelease(t) ==
    /\ tpc[t] = "body"
    /\ sync_sem' = sync_sem + 1
    /\ tpc' = [tpc EXCEPT ![t] = "dec"]
    /\ UNCHANGED <<active_sync, proc, automations, afile, rfile, jobs, ex,
                   rbuf, clock, issued, invoked, fired, starts, stops, last>>
    /\ UNCHANGED <<gateway, rpc, stats, cron, alloc>>

\* execution_limiter.py:58-60  with _lock: _active_sync -= 1
SyncDec(t) ==
    /\ tpc[t] = "dec"
    /\ active_sync' = active_sync - 1
    /\ tpc' = [tpc EXCEPT ![t] = "done"]
    /\ UNCHANGED <<sync_sem, proc, automations, afile, rfile, jobs, ex, rbuf,
                   clock, issued, invoked, fired, starts, stops, last>>
    /\ UNCHANGED <<gateway, rpc, stats, cron, alloc>>

\* execution_limiter.py:28-33  get_stats reads the two globals four times,
\* holding no lock: line 30, line 31, and the two operands of line 32
GetStats ==
    /\ rpc \in {"idle", "async", "sync", "left"}
    /\ CASE rpc = "idle" ->
              /\ stats' = Stats(active_async, 0, 0, 0)
              /\ rpc' = "async"
         [] rpc = "async" ->
              /\ stats' = [stats EXCEPT !.active_sync = active_sync]
              /\ rpc' = "sync"
         [] rpc = "sync" ->
              /\ stats' = [stats EXCEPT !.tmp = active_async]
              /\ rpc' = "left"
         [] rpc = "left" ->
              /\ stats' = [stats EXCEPT !.total_active = stats.tmp + active_sync]
              /\ rpc' = "done"
    /\ UNCHANGED <<gateway, sched, tpc, cron, alloc>>

LimNext ==
    \/ GetStats
    \/ \E t \in Threads :
        \/ SyncAcquire(t)
        \/ SyncInc(t)
        \/ SyncRelease(t)
        \/ SyncDec(t)
    \/ \E r \in 1..LimRequests :
        \/ Request(r, {"runs"}, {Secret}, {"chat_agent"})
        \/ AEnter(r)
        \/ RunReturn(r)

\* the limiter does not read API_KEY
LimInit == Init /\ API_KEY = Secret

LimSpec == LimInit /\ [][LimNext]_vars

----------------------------------------------------------------------------
(***************************************************************************)
(* add_automation for a weekly config (scheduler.py:97-103) and the fire   *)
(* times of the CronTrigger it builds.                                     *)
(***************************************************************************)

\* weekdays as datetime.weekday() and CronTrigger number them: 0 is Monday
Weekdays == 0..6
Monday == 0

\* time_of_day strings, character by character, with the hour and minute
\* they denote
TimeInputs ==
    { [s |-> <<"0", "9", ":", "0", "0">>, h |-> 9, m |-> 0],
      [s |-> <<"2", "3", ":", "5", "9">>, h |-> 23, m |-> 59],
      [s |-> <<"0", "0", ":", "3", "0">>, h |-> 0, m |-> 30],
      [s |-> <<"9", ":", "0", "5">>, h |-> 9, m |-> 5] }

\* the times the clock is looked at
Times == [weekday : Weekdays, hour : {0, 9, 23}, minute : {0, 5, 30, 59}]

Digit == ("0" :> 0) @@ ("1" :> 1) @@ ("2" :> 2) @@ ("3" :> 3) @@ ("4" :> 4)
         @@ ("5" :> 5) @@ ("6" :> 6) @@ ("7" :> 7) @@ ("8" :> 8) @@ ("9" :> 9)

\* int(): the decimal value of a string of digits
RECURSIVE ToInt(_)
ToInt(cs) ==
    IF cs = <<>> THEN 0
    ELSE 10 * ToInt(SubSeq(cs, 1, Len(cs) - 1)) + Digit[cs[Len(cs)]]

\* str.split(":") of a string with one colon: the part before and the part
\* after it
Colon(cs) == CHOOSE i \in 1..Len(cs) : cs[i] = ":"
SplitColon(cs) ==
    <<SubSeq(cs, 1, Colon(cs) - 1), SubSeq(cs, Colon(cs) + 1, Len(cs))>>

\* WeeklyTrigger passing the parts of time_of_day in the other order
WeeklyTrigger_Swapped(d, tod) ==
    [day_of_week |-> d,
     hour |-> ToInt(SplitColon(tod)[2]),
     minute |-> ToInt(SplitColon(tod)[1])]

\* scheduler.py:97-103  hour, minute = time_of_day.split(":");
\* CronTrigger(day_of_week=..., hour=int(hour), minute=int(minute))
WeeklyTrigger(d, tod) ==
    [day_of_week |-> d,
     hour |-> ToInt(SplitColon(tod)[1]),
     minute |-> ToInt(SplitColon(tod)[2])]

\* a CronTrigger fires at the times whose fields match its expressions
\* (second 0 of the minute)
CronFires(trigger, t) ==
    /\ t.weekday = trigger.day_of_week
    /\ t.hour = trigger.hour
    /\ t.minute = trigger.minute

\* api.py:31-39 and scheduler.py:84-103 for frequency "weekly"
AddWeekly(d, inp) ==
    /\ wk = NoWeekly
    /\ wk' = [day_of_week |-> d, time_of_day |-> inp.s, hh |-> inp.h,
              mm |-> inp.m, trigger |-> WeeklyTrigger(d, inp.s)]
    /\ UNCHANGED <<gateway, sched, lim, now, alloc>>

\* the clock reaches another time
Tick(t) ==
    /\ wk # NoWeekly
    /\ t # now
    /\ now' = t
    /\ UNCHANGED <<gateway, sched, lim, wk, alloc>>

CronNext ==
    \/ \E d \in Weekdays, inp \in TimeInputs : AddWeekly(d, inp)
    \/ \E t \in Times : Tick(t)

CronSpec == SchedInit /\ [][CronNext]_vars

----------------------------------------------------------------------------
(***************************************************************************)
(* tools/analysis_tools.py: create_allocation, with the opportunities      *)
(* passed as a list (opportunities_json) and no state injected.            *)
(***************************************************************************)

\* the longest list of opportunities passed
MaxOpportunities == 6

Capitals == {0, 500, 1000, 10000}
RiskProfiles == {"conservative", "moderate", "aggressive", "balanced"}
Opportunities == {[i \in 1..n |-> "coin"] : n \in 0..MaxOpportunities}

\* analysis_tools.py:312-318  the crypto share of the profile, in percent;
\* an unknown profile gets the moderate one
CryptoShare(risk_profile) ==
    CASE risk_profile = "conservative" -> 40
      [] risk_profile = "aggressive" -> 80
      [] OTHER -> 60

Min(a, b) == IF a < b THEN a ELSE b

\* analysis_tools.py:321-334  one allocation for each of the first five
\* opportunities; the percentage (per_coin / capital) * 100 is kept as the
\* fraction share / coins
Allocations(opps, risk_profile) ==
    [i \in 1..Min(Len(opps), 5) |->
        [coin_id |-> opps[i],
         percentage |-> <<CryptoShare(risk_profile), Min(Len(opps), 5)>>]]

\* analysis_tools.py:265-380.  With opportunities and capital 0 the division
\* at line 329 raises ZeroDivisionError; otherwise the Command's update holds
\* "allocation" and "messages" (line 374: analysis_complete is no longer set
\* here).
create_allocation(capital, opps, risk_profile) ==
    IF Len(opps) > 0 /\ capital = 0
    THEN [state |-> "ZeroDivisionError",
          update |-> [allocation |-> <<>>, messages |-> <<>>]]
    ELSE [state |-> "returned",
          update |-> [allocation |-> Allocations(opps, risk_profile),
                      messages |-> <<"ToolMessage">>]]

\* create_allocation.invoke(...)
InvokeTool(capital, opps, risk_profile) ==
    /\ ret = NoReturn
    /\ call' = [capital |-> capital, opportunities |-> opps,
                risk_profile |-> risk_profile]
    /\ ret' = create_allocation(capital, opps, risk_profile)
    /\ UNCHANGED <<gateway, sched, lim, cron>>

AllocNext ==
    \E capital \in Capitals, opps \in Opportunities, rp \in RiskProfiles :
        InvokeTool(capital, opps, rp)

AllocSpec == SchedInit /\ [][AllocNext]_vars

----------------------------------------------------------------------------
\* The requests inside the body of `async with ExecutionLimiter()`
Holding(r) == pc[r] \in {"ainvoke", "astream"} \cup Yields
Holders == {r \in Requests : Holding(r)}
Acquired == {r \in Requests : acquired[r] > 0}
Released == {r \in Requests : released[r] > 0}
Settled == \A r \in Requests : pc[r] \in {"idle", "done"}

\* C1  Admission bound: at most MAX_CONCURRENT_EXECUTIONS requests are inside
\* the guarded section at once, and once more requests than that have been
\* admitted, as many of them as exceed the bound have released their slot.
C1_AdmissionBound ==
    /\ Cardinality(Holders) <= MAX_CONCURRENT_EXECUTIONS
    /\ Cardinality(Acquired) - Cardinality(Released) <= MAX_CONCURRENT_EXECUTIONS

\* C1 witness: one more request than the bound has been admitted, and the
\* guarded section is full again
C1_Witness ==
    /\ Cardinality(Acquired) = MAX_CONCURRENT_EXECUTIONS + 1
    /\ Cardinality(Holders) = MAX_CONCURRENT_EXECUTIONS

\* C2  Release-on-failure: a request that is over has released what it
\* acquired, also when its agent raised, and once every request is over
\* active_async is 0 and every permit is back.
C2_ReleaseOnFailure ==
    /\ \A r \in Requests : pc[r] = "done" => released[r] = acquired[r]
    /\ Settled => active_async = 0 /\ sem = MAX_CONCURRENT_EXECUTIONS

\* C2 witness: every request is over, a /runs and a /runs/stream agent raised
C2_Witness ==
    /\ \A r \in Requests : pc[r] = "done"
    /\ \E r \in Requests : endpoint[r] = "runs" /\ agent[r] = "raised"
    /\ \E r \in Requests : endpoint[r] = "stream" /\ agent[r] = "raised"

----------------------------------------------------------------------------
\* The streams of ConnSpec
Streams == {r \in Conns : endpoint[r] = "stream"}

EndFrame == <<EventLine("end"), DataLine("end", <<>>)>>
ErrorFrame(msg) == <<EventLine("error"), DataLine("error", <<"message", msg>>)>>

Tail2(s) == SubSeq(s, Len(s) - 1, Len(s))
EndsWithEndFrame(s) == Len(s) >= 2 /\ Tail2(s) = EndFrame
CountLine(s, l) == Cardinality({i \in 1..Len(s) : s[i] = l})
IsTerminal(l) == l.kind \in {"error", "end"}
IsBody(l) == ~IsTerminal(l)

\* generate() ran to its end without being cancelled or closed
StreamCompleted(r) ==
    endpoint[r] = "stream" /\ pc[r] = "done" /\ acquired[r] = 1 /\ exc[r] = None

\* one of the agent's payloads made json.dumps raise
DumpsFailed(r) == \E i \in 1..Len(src[r]) : ~Serializable(Formatted(src[r][i]))

\* C3  A slot acquired by run_stream is released exactly once on every exit
\* path: a stream never releases more than it acquired, a generator that is
\* over has released its slot, and a generator its consumer has closed
\* (GeneratorExit thrown in at the yield it was suspended at) holds no slot.
C3_ReleasedOnEveryExit ==
    \A r \in Streams :
        /\ released[r] <= acquired[r] /\ acquired[r] <= 1
        /\ pc[r] = "done" => released[r] = acquired[r]
        /\ exc[r] = "GeneratorExit" => released[r] = acquired[r]

\* C4  Frame termination: the strings of a stream hold at most one end line,
\* nothing but its data line follows it, and a generator that ran to its end
\* (the agent's stream ended, or raised, or a payload could not be
\* serialized) has yielded exactly one end frame, last.
C4_FrameTermination ==
    \A r \in Streams :
        /\ CountLine(out[r], EventLine("end")) <= 1
        /\ \A i \in 1..Len(out[r]) :
             out[r][i] = EventLine("end") =>
                 \/ i = Len(out[r])
                 \/ i = Len(out[r]) - 1 /\ out[r][Len(out[r])] = DataLine("end", <<>>)
        /\ StreamCompleted(r) =>
             /\ EndsWithEndFrame(out[r])
             /\ CountLine(out[r], EventLine("end")) = 1
             /\ CountLine(out[r], DataLine("end", <<>>)) = 1

\* C4 witness: a stream that ran to its end after json.dumps failed on the
\* second payload
C4_Witness ==
    \E r \in Streams :
        /\ StreamCompleted(r)
        /\ Len(src[r]) = 2
        /\ DumpsFailed(r)

\* C5 as claimed: a completed stream holds exactly one error frame, right
\* before the end frame, when the agent raised, and no error line when the
\* agent did not raise.
C5_ErrorFrameIffAgentRaises ==
    \A r \in Streams :
        StreamCompleted(r) =>
            IF agent[r] = "raised"
            THEN /\ CountLine(out[r], EventLine("error")) = 1
                 /\ Len(out[r]) >= 4
                 /\ SubSeq(out[r], Len(out[r]) - 3, Len(out[r]))
                        = ErrorFrame(AgentError) \o EndFrame
            ELSE \A i \in 1..Len(out[r]) : out[r][i].kind # "error"

\* C5 amended: a completed stream holds exactly one error frame, carrying the
\* failure's message, after everything yielded before and right before the
\* end frame, when the agent raised or json.dumps raised on a payload; it
\* holds no error line when neither raised; and neither failure leaves the
\* generator.
C5_ErrorFrameIffFailure ==
    \A r \in Streams :
        /\ pc[r] = "done" => exc[r] \notin {AgentError, DumpsError}
        /\ StreamCompleted(r) =>
             IF agent[r] = "raised" \/ DumpsFailed(r)
             THEN /\ CountLine(out[r], EventLine("error")) = 1
                  /\ Len(out[r]) >= 4
                  /\ SubSeq(out[r], Len(out[r]) - 3, Len(out[r]))
                         = ErrorFrame(IF agent[r] = "raised" THEN AgentError
                                      ELSE DumpsError) \o EndFrame
             ELSE \A i \in 1..Len(out[r]) : out[r][i].kind # "error"

\* C5 witness: a completed stream whose agent raised after an event
\* went out
C5_Witness ==
    \E r \in Streams :
        StreamCompleted(r) /\ agent[r] = "raised" /\ Len(src[r]) >= 1

\* the frames of the events s, every one complete
RECURSIVE Frames(_)
Frames(s) ==
    IF s = <<>> THEN <<>>
    ELSE Frames(SubSeq(s, 1, Len(s) - 1))
             \o <<EventLine(Last(s).type), DataLine(Last(s).type, Formatted(Last(s)))>>

\* the frames of the events s, the last one with its event line only
FramesOpen(s) ==
    Frames(SubSeq(s, 1, Len(s) - 1)) \o <<EventLine(Last(s).type)>>

\* C6  Frames are FIFO and 1:1 with the agent's events: in every state the
\* strings yielded before the terminal error and end lines are the frames of
\* the events the agent produced, in order, each event line carrying its
\* event's name (the last frame may still lack its data line), and no such
\* string comes after a terminal line.
C6_FramesFollowEvents ==
    \A r \in Streams :
        LET body == SelectSeq(out[r], IsBody) IN
        /\ body = SubSeq(out[r], 1, Len(body))
        /\ IF src[r] = <<>> THEN body = <<>>
           ELSE body \in {Frames(src[r]), FramesOpen(src[r])}

\* C6 witness: a completed stream of two events of different names, both
\* framed
C6_Witness ==
    \E r \in Streams :
        /\ StreamCompleted(r)
        /\ Len(src[r]) = 2
        /\ src[r][1].type # src[r][2].type
        /\ SelectSeq(out[r], IsBody) = Frames(src[r])

\* C7  Unknown agent: a request to /runs or /runs/stream that passed the auth
\* gate with an agent id that is no key of GRAPHS is answered 404, has
\* acquired no slot, has called no agent and has yielded nothing; the permits
\* and active_async account for the requests inside the guarded section only.
C7_UnknownAgent ==
    /\ active_async = Cardinality(Holders)
    /\ sem = MAX_CONCURRENT_EXECUTIONS - Cardinality(Holders)
    /\ \A r \in Conns :
         ( /\ pc[r] # "idle"
           /\ endpoint[r] \in {"runs", "stream"}
           /\ API_KEY = "" \/ cred[r] = API_KEY
           /\ agent_id[r] \notin GRAPHS )
         => /\ pc[r] = "done"
            /\ resp[r] = Resp("404", "", "")
            /\ acquired[r] = 0 /\ released[r] = 0
            /\ agent[r] = "none"
            /\ out[r] = <<>>

\* C7 witness: /runs/stream answered 404 for "nonexistent_agent"
C7_Witness ==
    \E r \in Conns :
        /\ endpoint[r] = "stream"
        /\ agent_id[r] = "nonexistent_agent"
        /\ resp[r].code = "404"

\* C8  Auth gate: with API_KEY set, a request to /agents, /runs or
\* /runs/stream without a token or with another token is answered 401, has
\* acquired no slot and has called no agent; no other request is answered
\* 401, so with API_KEY unset every request is admitted.
C8_AuthGate ==
    \A r \in Conns :
        pc[r] # "idle" =>
            IF API_KEY # "" /\ cred[r] # API_KEY
            THEN /\ pc[r] = "done"
                 /\ resp[r] = Resp("401", "", "")
                 /\ acquired[r] = 0 /\ released[r] = 0
                 /\ agent[r] = "none"
                 /\ out[r] = <<>>
            ELSE resp[r].code # "401"

\* C8 witness: POST /runs without an Authorization header answered 401
C8_Witness ==
    \E r \in Conns :
        /\ API_KEY = Secret
        /\ endpoint[r] = "runs"
        /\ cred[r] = None
        /\ resp[r].code = "401"

\* C9  /runs on a known agent: while the agent runs the request holds the one
\* slot it acquired and has not answered; an agent that raised is answered
\* with the envelope {status: "error", error: <message>}, one that returned
\* with {status: "success", result}, both as a 200 and with the slot released
\* once.
C9_RunEnvelope ==
    \A r \in Requests :
        endpoint[r] = "runs" /\ agent_id[r] \in GRAPHS =>
            /\ pc[r] = "aenter" => agent[r] = "none" /\ acquired[r] = 0
            /\ pc[r] = "ainvoke" =>
                 agent[r] = "running" /\ acquired[r] = 1 /\ released[r] = 0
                 /\ resp[r] = NoResp
            /\ pc[r] = "done" =>
                 /\ acquired[r] = 1 /\ released[r] = 1
                 /\ agent[r] \in {"returned", "raised"}
                 /\ agent[r] = "returned" => resp[r] = Resp("200", "success", "")
                 /\ agent[r] = "raised" => resp[r] = Resp("200", "error", AgentError)

\* C9 witness: a /runs request whose agent raised has been answered while
\* another request is inside the guarded section
C9_Witness ==
    \E r \in Requests :
        /\ endpoint[r] = "runs"
        /\ agent[r] = "raised"
        /\ pc[r] = "done"
        /\ \E q \in Requests : Holding(q)

\* C10 as claimed: a stream yields strings and runs its agent only while it
\* holds the slot it acquired, and releases it only once the end frame has
\* been yielded.
C10_SlotHeldUntilEndFrame ==
    [][\A r \in Conns :
         endpoint'[r] = "stream" =>
             /\ out'[r] # out[r] => acquired'[r] = 1 /\ released'[r] = 0
             /\ agent'[r] = "running" => acquired'[r] = 1 /\ released'[r] = 0
             /\ released'[r] # released[r] => EndsWithEndFrame(out[r])]_vars

\* C10 amended: a stream yields strings and runs its agent only while it
\* holds the slot it acquired, and releases it only once the end frame has
\* been yielded or when its generator is closed (GeneratorExit).
C10_SlotHeldWhileStreaming ==
    [][\A r \in Conns :
         endpoint'[r] = "stream" =>
             /\ out'[r] # out[r] => acquired'[r] = 1 /\ released'[r] = 0
             /\ agent'[r] = "running" => acquired'[r] = 1 /\ released'[r] = 0
             /\ released'[r] # released[r] =>
                    EndsWithEndFrame(out[r]) \/ exc'[r] = "GeneratorExit"]_vars

\* C10 witness: a stream that framed an event has released its slot after its
\* end frame
C10_Witness ==
    \E r \in Streams :
        /\ Len(src[r]) >= 1
        /\ released[r] = 1
        /\ EndsWithEndFrame(out[r])

----------------------------------------------------------------------------
\* the automations whose agent invocation is in progress
Invoking == {id \in Ids : ex[id] = "invoke"}

\* the job of id is registered and not suspended
Live(id) == jobs[id] # NoJob /\ ~jobs[id].suspended

\* the definition of id is stored and not paused
Unpaused(id) == automations[id] # Absent /\ ~automations[id].paused

\* C11 as claimed: every agent invocation a trigger started runs holding one
\* sync slot, so at most MAX_CONCURRENT_EXECUTIONS of them run at once and
\* active_sync counts them.
C11_SchedulerHoldsSyncSlot ==
    /\ Cardinality(Invoking) <= MAX_CONCURRENT_EXECUTIONS
    /\ active_sync = Cardinality(Invoking)
    /\ sync_sem = MAX_CONCURRENT_EXECUTIONS - Cardinality(Invoking)

\* C12 as claimed: while the scheduler runs, every stored automation that is
\* not paused has its one live trigger.
C12_OneLiveTriggerPerActive ==
    proc = "running" => \A id \in Ids : Unpaused(id) => Live(id)

\* C13 as claimed: resume makes a paused automation Active (paused = false
\* in the mapping and the file, one live trigger), also one loaded as paused
\* at process start; pause makes an Active automation Paused (paused = true
\* in the mapping and the file, trigger suspended, definition retained).
C13_PauseResume ==
    [][\A id \in Ids :
         /\ ( /\ last' # last
              /\ last' \in {Call("resume", id, "Paused"),
                            Call("resume", id, "PausedNoTrigger")} )
            => /\ automations'[id] = Config(automations[id].frequency, FALSE)
               /\ afile' = File(automations')
               /\ jobs'[id] # NoJob /\ ~jobs'[id].suspended
         /\ ( /\ last' # last
              /\ last' = Call("pause", id, "Active") )
            => /\ automations'[id] = Config(automations[id].frequency, TRUE)
               /\ afile' = File(automations')
               /\ jobs'[id] = Job(jobs[id].trigger, TRUE)]_vars

\* C14 as claimed: the agent of an automation with frequency 'once' is
\* invoked at most once, process restarts included.
C14_OnceFiresOnce ==
    \A id \in Ids : automations[id].frequency = "once" => invoked[id] <= 1

\* C15  Pause/resume idempotence: pause on an automation that is Paused and
\* resume on one that is Active change neither the mapping, nor the file,
\* nor the jobs: still one trigger, as suspended or live as before, and the
\* same persisted paused flag.
C15_PauseResumeIdempotent ==
    [][\A id \in Ids :
         /\ (api_pause_automation(id) /\ StateOf(id) = "Paused")
            => /\ UNCHANGED <<automations, afile, jobs>>
               /\ jobs'[id] # NoJob /\ jobs'[id].suspended
               /\ afile'.doc[id].paused
         /\ (api_resume_automation(id) /\ StateOf(id) = "Active")
            => /\ UNCHANGED <<automations, afile, jobs>>
               /\ jobs'[id] # NoJob /\ ~jobs'[id].suspended
               /\ ~afile'.doc[id].paused]_vars

\* C15 witness: pause was called on an automation already Paused, whose
\* trigger had fired before
C15_Witness ==
    \E id \in Ids :
        /\ proc = "running"
        /\ last = Call("pause", id, "Paused")
        /\ StateOf(id) = "Paused"
        /\ fired[id] >= 1

\* C16  remove on an Active or Paused automation erases its definition from
\* the mapping and from the file and cancels its trigger; a firing that
\* finds no definition invokes no agent and appends no result.
C16_RemoveAndLateFiring ==
    [][\A id \in Ids :
         /\ (delete_automation(id) /\ StateOf(id) \in {"Active", "Paused"})
            => /\ automations'[id] = Absent
               /\ afile'.state = "json" /\ afile'.doc[id] = Absent
               /\ jobs'[id] = NoJob
         /\ (Begin(id) /\ automations[id] = Absent)
            => /\ ex'[id] = "idle"
               /\ UNCHANGED <<invoked, rfile, rbuf, clock>>]_vars

\* C16 witness: the trigger of a removed automation fired and nothing was
\* invoked
C16_Witness ==
    \E id \in Ids :
        /\ id \in issued
        /\ last = Call("fire", id, "Unregistered")
        /\ automations[id] = Absent /\ jobs[id] = NoJob
        /\ proc = "running"
        /\ fired[id] = 1 /\ invoked[id] = 0 /\ ex[id] = "idle"
        /\ rfile.doc[id] = <<>>

Sequential(id) ==
    /\ \A j \in Ids \ {id} : rbuf[id][j] = rfile.doc[j]
    /\ SubSeq(rbuf[id][id], 1, Len(rbuf[id][id]) - 1) = rfile.doc[id]

\* no other automation has been executed
Alone(id) == \A j \in Ids \ {id} : invoked[j] = 0

\* C18  Result append: the executions of one automation id, run one after
\* another, leave one entry each, in execution order: the list of the id is
\* as long as the number of its finished executions, every write keeps the
\* earlier entries as they were and adds one entry, "ok" for an invocation
\* that returned and "error" for one that raised, with a timestamp greater
\* than the previous one.
C18_ResultAppend ==
    /\ [](\A id \in Ids :
            Alone(id) =>
                Len(rfile.doc[id]) =
                    invoked[id] - (IF ex[id] \in {"invoke", "write"} THEN 1 ELSE 0))
    /\ [][\A id \in Ids :
            /\ InvokeReturn(id) =>
                   rbuf'[id][id] = Append(rfile.doc[id], Entry(clock', "ok"))
            /\ InvokeRaise(id) =>
                   rbuf'[id][id] = Append(rfile.doc[id], Entry(clock', "error"))
            /\ (SaveWrite(id) /\ Sequential(id)) =>
                   LET old == rfile.doc[id]
                       new == rfile'.doc[id]
                   IN  /\ Len(new) = Len(old) + 1
                       /\ SubSeq(new, 1, Len(old)) = old
                       /\ new[Len(new)] = rbuf[id][id][Len(rbuf[id][id])]
                       /\ Len(old) > 0 =>
                              new[Len(new)].timestamp > old[Len(old)].timestamp
                       /\ \A j \in Ids \ {id} : rfile'.doc[j] = rfile.doc[j]]_vars

\* C18 witness: three executions of one automation, the second of which
\* failed, have left three entries
C18_Witness ==
    \E id \in Ids :
        /\ Alone(id)
        /\ invoked[id] = 3 /\ ex[id] = "idle"
        /\ Len(rfile.doc[id]) = 3
        /\ rfile.doc[id][1].result = "ok"
        /\ rfile.doc[id][2].result = "error"
        /\ rfile.doc[id][3].result = "ok"

\* C19 as claimed: while the process runs, the file holds the mapping, and
\* the paused flag of every stored config is true exactly when the
\* automation has no live trigger.
C19_StoreInLockstep ==
    proc = "running" =>
        /\ afile.state # "partial"
        /\ load_automations(afile) = automations
        /\ \A id \in Ids :
             automations[id] # Absent => (automations[id].paused <=> ~Live(id))

\* C20 as claimed: the files hold a complete document at every point.
C20_AtomicSave ==
    /\ afile.state # "partial"
    /\ rfile.state # "partial"

\* C21 as claimed: delete, pause or resume naming an id that is not in the
\* store is answered with a 4xx NotFound, no success status.
C21_UnknownAutomationNotFound ==
    (last.op \in {"remove", "pause", "resume"} /\ last.pre = "Unregistered")
        => /\ Answer(last).code = "404"
           /\ Answer(last).status \notin {"deleted", "paused", "resumed"}

----------------------------------------------------------------------------
\* the threads that hold a sync permit
SyncHolders == {t \in Threads : tpc[t] \in {"inc", "body"}}

\* the /runs requests that hold an async permit
AsyncHolders == {r \in 1..LimRequests : pc[r] = "ainvoke"}

\* C22 as claimed: a finished get_stats snapshot is consistent: its
\* total_active is the sum of the active_async and active_sync it reports.
C22_ConsistentSnapshot ==
    rpc = "done" => stats.total_active = stats.active_async + stats.active_sync

\* C23  The two pools are independent semaphores of MAX_CONCURRENT_EXECUTIONS
\* permits each: the permits left in each pool count the holders of that
\* pool only, a thread can acquire whenever fewer than the maximum of threads
\* hold a sync permit and a task whenever fewer than the maximum of tasks
\* hold an async permit, whatever the other pool holds, and at most twice the
\* maximum of guarded sections run at once.
C23_IndependentPools ==
    /\ sync_sem = MAX_CONCURRENT_EXECUTIONS - Cardinality(SyncHolders)
    /\ sem = MAX_CONCURRENT_EXECUTIONS - Cardinality(AsyncHolders)
    /\ Cardinality(SyncHolders) + Cardinality(AsyncHolders)
           <= 2 * MAX_CONCURRENT_EXECUTIONS
    /\ \A t \in Threads :
         ( /\ tpc[t] = "idle"
           /\ IF t = 1 THEN TRUE ELSE tpc[t - 1] # "idle"
           /\ Cardinality(SyncHolders) < MAX_CONCURRENT_EXECUTIONS )
         => ENABLED SyncAcquire(t)
    /\ \A r \in 1..LimRequests :
         (pc[r] = "aenter" /\ Cardinality(AsyncHolders) < MAX_CONCURRENT_EXECUTIONS)
         => ENABLED AEnter(r)

\* C23 witness: both pools are full at once, 2 * MAX_CONCURRENT_EXECUTIONS
\* guarded sections are running
C23_Witness ==
    /\ Cardinality({t \in Threads : tpc[t] = "body"}) = MAX_CONCURRENT_EXECUTIONS
    /\ Cardinality(AsyncHolders) = MAX_CONCURRENT_EXECUTIONS
    /\ active_sync + active_async = 2 * MAX_CONCURRENT_EXECUTIONS

\* C27 as claimed: both counters stay between 0 and
\* MAX_CONCURRENT_EXECUTIONS.
C27_CountersWithinPermits ==
    /\ 0 <= active_sync /\ active_sync <= MAX_CONCURRENT_EXECUTIONS
    /\ 0 <= active_async /\ active_async <= MAX_CONCURRENT_EXECUTIONS

----------------------------------------------------------------------------
\* C24  Weekly round trip: a weekly automation added with day_of_week = d
\* and time_of_day = HH:MM is stored with these values and its trigger fires
\* at a time exactly when that time is on weekday d (0 is Monday) at hour HH
\* and minute MM.
C24_WeeklyRoundTrip ==
    wk # NoWeekly =>
        /\ wk.day_of_week \in Weekdays
        /\ wk.trigger.day_of_week = wk.day_of_week
        /\ CronFires(wk.trigger, now)
               <=> ( /\ now.weekday = wk.day_of_week
                     /\ now.hour = wk.hh
                     /\ now.minute = wk.mm )

\* C24 witness: the automation added with day_of_week = 0 and "09:00" fires
\* on a Monday at 09:00
C24_Witness ==
    /\ wk.day_of_week = Monday
    /\ wk.time_of_day = <<"0", "9", ":", "0", "0">>
    /\ now = [weekday |-> Monday, hour |-> 9, minute |-> 0]
    /\ CronFires(wk.trigger, now)

\* C25 as claimed: every call with a capital and a list of opportunities
\* returns an update with the keys allocation, messages and
\* analysis_complete, the last one True.
C25_AllocationUpdate ==
    ret # NoReturn =>
        /\ ret.state = "returned"
        /\ {"allocation", "messages", "analysis_complete"}
               \subseteq DOMAIN ret.update
        /\ ret.update["analysis_complete"] = TRUE

\* C26 as claimed: on the wire of a stream every event line is immediately
\* followed by the data line of the same frame, whatever the frame's kind,
\* also when json.dumps fails on the payload of the frame.
C26_EveryFrameComplete ==
    \A r \in Streams :
        \A i \in 1..(Len(out[r]) - 1) :
            out[r][i].line = "event" =>
                /\ out[r][i + 1].line = "data"
                /\ out[r][i + 1].kind = out[r][i].kind

\* C28 as claimed: executions of different automations may overlap and no
\* result is lost: once no execution is in progress, the results store has
\* one entry for every execution that was invoked, under its automation's id.
C28_NoLostResult ==
    (\A id \in Ids : ex[id] = "idle") =>
        \A id \in Ids : Len(rfile.doc[id]) = invoked[id]

\* C29 as claimed: add_automation is all-or-nothing: a call for a config
\* from which no trigger can be derived leaves the in-memory mapping, the
\* durable store and the registered triggers as they were.
C29_AddAllOrNothing ==
    [][\A id \in Ids, f \in Frequencies :
          (TriggerOf(f) = "none" /\ create_automation(id, f)) =>
              UNCHANGED <<automations, afile, jobs>>]_vars

\* C30  No starvation: when every agent call that was started ends and every
\* stream is consumed to its end, a request waiting in
\* ExecutionLimiter.__aenter__ is eventually admitted and eventually
\* completes, having acquired and released one permit.  A request never goes
\* back to an earlier step, so this is: from some point on every request
\* that has arrived is over, with its permit acquired and released.
C30_NoStarvation ==
    <>[](\A r \in Requests :
            \/ pc[r] = "idle"
            \/ pc[r] = "done" /\ acquired[r] = 1 /\ released[r] = 1)

\* C30 witness: a request waits in __aenter__ while a /runs request and a
\* stream hold all the permits
C30_Witness ==
    \E r \in Requests :
        /\ pc[r] = "aenter"
        /\ sem = 0
        /\ \E p, q \in Requests \ {r} :
              /\ pc[p] = "ainvoke"
              /\ pc[q] \in {"astream", "y_event", "y_data"}
====
